---- MODULE Spec2Model ----
(***************************************************************************)
(* Model of the audio diarization worker (src/worker/main.py).             *)
(*                                                                         *)
(* One invocation of diarize_audio is followed stage by stage: download,   *)
(* conversion, speech detection, embedding extraction, clustering,         *)
(* confidence, assembly of the response with the clean-up of the temporary *)
(* files.  The audio is represented by what the voice-activity detector    *)
(* says of each of its 30 ms frames; the external libraries (requests,     *)
(* ffmpeg, librosa, webrtcvad, resemblyzer, scikit-learn) are represented  *)
(* by the outcomes they can produce.                                       *)
(*                                                                         *)
(* Times are kept in integer milliseconds: the code computes               *)
(* frames * 30 / 1000 in floating point, which is the double nearest to    *)
(* the exact value, and every comparison made on them (>= 0.25, ordering)  *)
(* separates multiples of 0.03 that are at least 0.01 apart.               *)
(* Confidence values are kept in hundredths (100 is 1.0).                  *)
(***************************************************************************)
EXTENDS Integers, Sequences, FiniteSets, TLC

VARIABLES
    pc,               \* position of the invocation in diarize_audio
    is_speech,        \* the audio: vad.is_speech of each full 30 ms frame
    files,            \* temporary files that exist on disk
    speech_frames,    \* detect_speech_segments: indices of the speech frames
    idx,              \* detect_speech_segments: position of the merge loop
    start_frame,      \* detect_speech_segments: first frame of the current run
    prev_frame,       \* detect_speech_segments: last speech frame seen
    segments,         \* detect_speech_segments: segments emitted so far
    speech_segments,  \* result of detect_speech_segments
    embeddings,       \* result of extract_embeddings
    speaker_labels,   \* result of cluster_speakers
    confidence,       \* result of calculate_confidence
    silhouette,       \* what the call of silhouette_score did, if it was made
    executed,         \* stages that were entered during the invocation
    response,         \* the DiarizationResponse returned, or NoResponse
    error             \* the HTTPException raised to the caller, or NoError

detect_vars == <<speech_frames, idx, start_frame, prev_frame, segments>>

vars == <<pc, is_speech, files, speech_frames, idx, start_frame, prev_frame,
          segments, speech_segments, embeddings, speaker_labels,
          confidence, silhouette, executed, response, error>>

----------------------------------------------------------------------------
(* Bounds of the inputs that are enumerated *)

MaxRuns == 3

MaxVectors == 3

GapChoices == {0, 1, 2}

LenChoices == {1, 8, 9}

TailChoices == {0, 2}

RawScores == {-100, -25, 0, 50, 100}

----------------------------------------------------------------------------
(* Constants of the program *)

frame_duration == 30

MinDurationMs == 250

NClusters == 2

NoResponse == [kind |-> "none"]

NoError == [kind |-> "none"]

----------------------------------------------------------------------------
(* The inputs *)

Repeat(b, n) == [i \in 1..n |-> b]

RECURSIVE BuildFrames(_, _)
BuildFrames(runs, i) ==
    IF i > Len(runs) THEN <<>>
    ELSE Repeat(FALSE, runs[i][1]) \o Repeat(TRUE, runs[i][2]) \o BuildFrames(runs, i + 1)

RunSpecs == UNION {[1..n -> GapChoices \X LenChoices] : n \in 0..MaxRuns}

\* speech at frames [0..66], silence at [67..99], speech at [100..166]
ScenarioTwoRuns == Repeat(TRUE, 67) \o Repeat(FALSE, 33) \o Repeat(TRUE, 67)

\* speech at frames [0..10], silence at frame 11, speech at [12..20]
ScenarioOneFrameGap == Repeat(TRUE, 11) \o Repeat(FALSE, 1) \o Repeat(TRUE, 9)

Inputs ==
    {BuildFrames(r, 1) \o Repeat(FALSE, t) : r \in RunSpecs, t \in TailChoices}
        \cup {ScenarioTwoRuns, ScenarioOneFrameGap}

----------------------------------------------------------------------------
(* detect_speech_segments *)

\* speech_frames: the 0-based indices of the frames classified as speech
SpeechFrames(cls) ==
    LET IsSpeechIdx(i) == cls[i + 1]
    IN  SelectSeq([i \in 1..Len(cls) |-> i - 1], IsSpeechIdx)

\* a gap of one frame is let through
GapDetected_Tolerant(frame, prev) == frame - prev > 2

GapDetected(frame, prev) == frame - prev > 1

StartTime(first) == first * frame_duration

\* the end is put at the start of the last frame
EndTime_LastFrame(last) == last * frame_duration

EndTime(last) == (last + 1) * frame_duration

\* no minimum duration
MeetsMinDuration_Always(start_time, end_time) == TRUE

MeetsMinDuration(start_time, end_time) == end_time - start_time >= MinDurationMs

\* the segment is put in front of the list
AppendSegment_Front(segs, seg) == <<seg>> \o segs

AppendSegment(segs, seg) == Append(segs, seg)

EmitSegment(segs, first, last) ==
    LET end_time   == EndTime(last)
        start_time == StartTime(first)
    IN  IF MeetsMinDuration(start_time, end_time)
        THEN AppendSegment(segs, [start |-> start_time, end |-> end_time])
        ELSE segs

----------------------------------------------------------------------------
(* extract_embeddings, cluster_speakers, calculate_confidence *)

\* One embedding per segment.  The slice wav[start:end] of a segment is
\* empty exactly when the preprocessed wav ends at or before its start, so
\* the segments with a voice embedding are the first `voiced` ones and the
\* others get the zero vector.
ExtractEmbeddings(segs, voiced) ==
    [i \in 1..Len(segs) |-> IF i <= voiced THEN "utterance" ELSE "zeros"]

LabelSet(labels) == {labels[i] : i \in 1..Len(labels)}

\* The labelings fit_predict can return: AgglomerativeClustering cuts its
\* tree into exactly n_clusters non-empty clusters, numbered from 0.
Labelings(embs) ==
    IF Len(embs) < 2
    THEN {[i \in 1..Len(embs) |-> 0]}
    ELSE {l \in [1..Len(embs) -> 0..(NClusters - 1)] : LabelSet(l) = 0..(NClusters - 1)}

Max(a, b) == IF a >= b THEN a ELSE b

\* the score is not clamped
ClampScore_None(score) == score

ClampScore(score) == Max(0, score)

\* silhouette_score requires 2 <= n_labels <= n_samples - 1
SilhouetteRaises(embs, labels) ==
    LET n_labels == Cardinality(LabelSet(labels))
    IN  ~(1 < n_labels /\ n_labels < Len(embs))

\* the except of calculate_confidence returns -1.0 as a mark of failure
CalculateConfidence_Mark(embs, labels, raw) ==
    IF Len(embs) < 2 THEN 0
    ELSE IF Cardinality(LabelSet(labels)) > 1
         THEN IF raw.raised THEN -100 ELSE Max(0, raw.score)
         ELSE 0

\* raw is what silhouette_score does: it raises, or returns raw.score
CalculateConfidence(embs, labels, raw) ==
    IF Len(embs) < 2 THEN 0
    ELSE IF Cardinality(LabelSet(labels)) > 1
         THEN IF raw.raised THEN 0 ELSE ClampScore(raw.score)
         ELSE 0

Raise == [raised |-> TRUE, score |-> 0]

NotCalled == [called |-> FALSE, raised |-> FALSE, score |-> 0]

\* the call of silhouette_score made by calculate_confidence, if any
SilhouetteCall(embs, labels, raw) ==
    IF Len(embs) >= 2 /\ Cardinality(LabelSet(labels)) > 1
    THEN [called |-> TRUE, raised |-> raw.raised, score |-> raw.score]
    ELSE NotCalled

RawOutcomes(embs, labels) ==
    IF SilhouetteRaises(embs, labels)
    THEN {Raise}
    ELSE {[raised |-> FALSE, score |-> s] : s \in RawScores} \cup {Raise}

----------------------------------------------------------------------------
(* diarize_audio *)

SpeakerName(speaker_label) == "Speaker " \o ToString(speaker_label + 1)

\* every segment gets label 0
LabelFor_Zero(labels, i) == 0

LabelFor(labels, i) == IF i <= Len(labels) THEN labels[i] ELSE 0

DiarizedSegments(segs, labels) ==
    [i \in 1..Len(segs) |->
        [start   |-> segs[i].start,
         end     |-> segs[i].end,
         speaker |-> SpeakerName(LabelFor(labels, i)),
         text    |-> ""]]

\* the count is the number of clusters asked for
SpeakerCount_Fixed(labels) == NClusters

SpeakerCount(labels) == Cardinality(LabelSet(labels))

\* the empty list is not special-cased
NoSpeech_Never(segs) == FALSE

NoSpeech(segs) == segs = <<>>

\* every stage's HTTPException is caught by the handler's except and raised
\* again with status 500 and the text of the original as detail
Failure(stage) == [kind |-> "HTTPException", status |-> 500, stage |-> stage]

Init ==
    /\ pc = "start"
    /\ is_speech \in Inputs
    /\ files = {}
    /\ speech_frames = <<>>
    /\ idx = 0
    /\ start_frame = 0
    /\ prev_frame = 0
    /\ segments = <<>>
    /\ speech_segments = <<>>
    /\ embeddings = <<>>
    /\ speaker_labels = <<>>
    /\ confidence = 0
    /\ silhouette = NotCalled
    /\ executed = {}
    /\ response = NoResponse
    /\ error = NoError

Fail(stage) ==
    /\ pc' = "failed"
    /\ error' = Failure(stage)
    /\ executed' = executed \cup {stage}

\* download_audio returns the path of the file it wrote
DownloadOk ==
    /\ pc = "start"
    /\ pc' = "downloaded"
    /\ files' = files \cup {"audio"}
    /\ executed' = executed \cup {"download"}
    /\ UNCHANGED <<is_speech, speech_segments, embeddings, speaker_labels,
                   confidence, silhouette, response, error>>
    /\ UNCHANGED detect_vars

\* download_audio raises: before the temporary file is created (the request
\* fails) or after (writing the chunks fails)
DownloadFail ==
    /\ pc = "start"
    /\ \E created \in BOOLEAN :
           files' = IF created THEN files \cup {"audio"} ELSE files
    /\ Fail("download")
    /\ UNCHANGED <<is_speech, speech_segments, embeddings, speaker_labels,
                   confidence, silhouette, response>>
    /\ UNCHANGED detect_vars

ConvertOk ==
    /\ pc = "downloaded"
    /\ pc' = "converted"
    /\ files' = files \cup {"wav"}
    /\ executed' = executed \cup {"convert"}
    /\ UNCHANGED <<is_speech, speech_segments, embeddings, speaker_labels,
                   confidence, silhouette, response, error>>
    /\ UNCHANGED detect_vars

\* ffmpeg exits with an error, having written some output or none
ConvertFail ==
    /\ pc = "downloaded"
    /\ \E written \in BOOLEAN :
           files' = IF written THEN files \cup {"wav"} ELSE files
    /\ Fail("convert")
    /\ UNCHANGED <<is_speech, speech_segments, embeddings, speaker_labels,
                   confidence, silhouette, response>>
    /\ UNCHANGED detect_vars

\* detect_speech_segments up to the merge loop: the audio is loaded and
\* every frame classified
DetectStart ==
    /\ pc = "converted"
    /\ pc' = "merging"
    /\ executed' = executed \cup {"segment"}
    /\ speech_frames' = SpeechFrames(is_speech)
    /\ segments' = <<>>
    /\ IF speech_frames' # <<>>
       THEN /\ start_frame' = speech_frames'[1]
            /\ prev_frame' = speech_frames'[1]
            /\ idx' = 2
       ELSE UNCHANGED <<start_frame, prev_frame, idx>>
    /\ UNCHANGED <<is_speech, files, speech_segments, embeddings, speaker_labels,
                   confidence, silhouette, response, error>>

\* librosa.load or vad.is_speech raises
DetectFail ==
    /\ pc = "converted"
    /\ Fail("segment")
    /\ UNCHANGED <<is_speech, files, speech_segments, embeddings, speaker_labels,
                   confidence, silhouette, response>>
    /\ UNCHANGED detect_vars

\* one iteration of the loop over speech_frames[1:]
MergeStep ==
    /\ pc = "merging"
    /\ speech_frames # <<>>
    /\ idx <= Len(speech_frames)
    /\ LET frame == speech_frames[idx]
       IN  /\ IF GapDetected(frame, prev_frame)
              THEN /\ segments' = EmitSegment(segments, start_frame, prev_frame)
                   /\ start_frame' = frame
              ELSE UNCHANGED <<segments, start_frame>>
           /\ prev_frame' = frame
    /\ idx' = idx + 1
    /\ UNCHANGED <<pc, is_speech, files, speech_frames, speech_segments, embeddings,
                   speaker_labels, confidence, silhouette, executed, response, error>>

\* the final segment is added and detect_speech_segments returns; with no
\* segment the handler returns the empty response at once
DetectReturn ==
    /\ pc = "merging"
    /\ speech_frames = <<>> \/ idx > Len(speech_frames)
    /\ segments' = IF speech_frames # <<>>
                   THEN EmitSegment(segments, start_frame, prev_frame)
                   ELSE segments
    /\ speech_segments' = segments'
    /\ IF NoSpeech(speech_segments')
       THEN /\ pc' = "returned"
            /\ response' = [kind |-> "DiarizationResponse",
                            diarizedSegments |-> <<>>,
                            speakerCount |-> 0,
                            confidence |-> 0,
                            debug |-> [message |-> "No speech detected"]]
       ELSE /\ pc' = "segmented"
            /\ response' = response
    /\ UNCHANGED <<is_speech, files, speech_frames, idx, start_frame, prev_frame,
                   embeddings, speaker_labels, confidence, silhouette, executed, error>>

EmbedOk ==
    /\ pc = "segmented"
    /\ pc' = "embedded"
    /\ executed' = executed \cup {"embed"}
    /\ \E voiced \in 0..Len(speech_segments) :
           embeddings' = ExtractEmbeddings(speech_segments, voiced)
    /\ UNCHANGED <<is_speech, files, speech_segments, speaker_labels,
                   confidence, silhouette, response, error>>
    /\ UNCHANGED detect_vars

EmbedFail ==
    /\ pc = "segmented"
    /\ Fail("embed")
    /\ UNCHANGED <<is_speech, files, speech_segments, embeddings, speaker_labels,
                   confidence, silhouette, response>>
    /\ UNCHANGED detect_vars

ClusterOk ==
    /\ pc = "embedded"
    /\ pc' = "clustered"
    /\ executed' = executed \cup {"cluster"}
    /\ speaker_labels' \in Labelings(embeddings)
    /\ UNCHANGED <<is_speech, files, speech_segments, embeddings,
                   confidence, silhouette, response, error>>
    /\ UNCHANGED detect_vars

\* fit_predict raises (only reached with two embeddings or more)
ClusterFail ==
    /\ pc = "embedded"
    /\ Len(embeddings) >= 2
    /\ Fail("cluster")
    /\ UNCHANGED <<is_speech, files, speech_segments, embeddings, speaker_labels,
                   confidence, silhouette, response>>
    /\ UNCHANGED detect_vars

\* calculate_confidence never raises: its except returns 0.0
Confidence ==
    /\ pc = "clustered"
    /\ pc' = "scored"
    /\ executed' = executed \cup {"confidence"}
    /\ \E raw \in RawOutcomes(embeddings, speaker_labels) :
           /\ confidence' = CalculateConfidence(embeddings, speaker_labels, raw)
           /\ silhouette' = SilhouetteCall(embeddings, speaker_labels, raw)
    /\ UNCHANGED <<is_speech, files, speech_segments, embeddings, speaker_labels,
                   response, error>>
    /\ UNCHANGED detect_vars

\* The clean-up: both unlinks are inside one try whose except passes, so a
\* failing first unlink skips the second.
Unlinked(fs, outcome) ==
    CASE outcome = "both"       -> fs \ {"audio", "wav"}
      [] outcome = "first_only" -> fs \ {"audio"}
      [] outcome = "none"       -> fs

\* the diarized segments are built, the temporary files removed and the
\* response returned
Assemble ==
    /\ pc = "scored"
    /\ pc' = "returned"
    /\ executed' = executed \cup {"assemble"}
    /\ \E outcome \in {"both", "first_only", "none"} :
           files' = Unlinked(files, outcome)
    /\ response' = [kind |-> "DiarizationResponse",
                    diarizedSegments |-> DiarizedSegments(speech_segments, speaker_labels),
                    speakerCount |-> SpeakerCount(speaker_labels),
                    confidence |-> confidence,
                    debug |-> [speech_segments_count |-> Len(speech_segments),
                               embeddings_count |-> Len(embeddings),
                               processing_time |-> "mock"]]
    /\ UNCHANGED <<is_speech, speech_segments, embeddings, speaker_labels,
                   confidence, silhouette, error>>
    /\ UNCHANGED detect_vars

Next ==
    \/ DownloadOk
    \/ DownloadFail
    \/ ConvertOk
    \/ ConvertFail
    \/ DetectStart
    \/ DetectFail
    \/ MergeStep
    \/ DetectReturn
    \/ EmbedOk
    \/ EmbedFail
    \/ ClusterOk
    \/ ClusterFail
    \/ Confidence
    \/ Assemble

Spec == Init /\ [][Next]_vars

----------------------------------------------------------------------------
(* calculate_confidence on any vectors and labels: the invocation is taken *)
(* at the call of calculate_confidence, with n segments of nine frames and *)
(* any labels in {0, 1}, also those cluster_speakers does not produce.     *)

NineFrameRuns(n) == BuildFrames([i \in 1..n |-> <<1, 9>>], 1)

NineFrameSegments(n) ==
    [i \in 1..n |-> [start |-> StartTime(10 * i - 9), end |-> EndTime(10 * i - 1)]]

InitConf ==
    /\ pc = "clustered"
    /\ \E n \in 0..MaxVectors :
          /\ is_speech = NineFrameRuns(n)
          /\ speech_frames = SpeechFrames(is_speech)
          /\ idx = Len(speech_frames) + 1
          /\ start_frame = IF n = 0 THEN 0 ELSE 10 * n - 9
          /\ prev_frame = IF n = 0 THEN 0 ELSE 10 * n - 1
          /\ segments = NineFrameSegments(n)
          /\ speech_segments = segments
          /\ \E voiced \in 0..n : embeddings = ExtractEmbeddings(speech_segments, voiced)
          /\ speaker_labels \in [1..n -> 0..(NClusters - 1)]
    /\ files = {"audio", "wav"}
    /\ confidence = 0
    /\ silhouette = NotCalled
    /\ executed = {"download", "convert", "segment", "embed", "cluster"}
    /\ response = NoResponse
    /\ error = NoError

SpecConf == (Init \/ InitConf) /\ [][Next]_vars

----------------------------------------------------------------------------
(* What the claims speak of *)

Speech(k) == k \in 0..(Len(is_speech) - 1) /\ is_speech[k + 1]

ZeroSpeech == \A i \in 1..Len(is_speech) : ~is_speech[i]

RunStarts == {a \in 0..(Len(is_speech) - 1) : Speech(a) /\ ~Speech(a - 1)}

RunEnds == {b \in 0..(Len(is_speech) - 1) : Speech(b) /\ ~Speech(b + 1)}

\* the maximal runs of speech frames, as <<first frame, last frame>>
Runs ==
    LET starts == RunStarts
        ends   == RunEnds
    IN  {r \in starts \X ends :
            r[1] <= r[2] /\ \A e \in ends : ~(r[1] <= e /\ e < r[2])}

RunFrames(r) == r[2] - r[1] + 1

LongOf(runs) == {r \in runs : RunFrames(r) >= 9}

ShortOf(runs) == {r \in runs : RunFrames(r) < 9}

LastOf(runs, r) == \A q \in runs : q[2] <= r[2]

\* detect_speech_segments has returned its list to the handler
SegReturned ==
    \/ pc \in {"segmented", "embedded", "clustered", "scored"}
    \/ pc = "returned" /\ "segment" \in executed
    \/ pc = "failed" /\ error.stage \in {"embed", "cluster"}

Ended == pc \in {"returned", "failed"}

SortedDisjoint(segs) ==
    \A i \in 1..(Len(segs) - 1) :
        /\ segs[i].start < segs[i + 1].start
        /\ segs[i].end <= segs[i + 1].start

EmptyResult ==
    /\ response.kind = "DiarizationResponse"
    /\ response.diarizedSegments = <<>>
    /\ response.speakerCount = 0
    /\ response.confidence = 0

LaterStages(stage) ==
    CASE stage = "download" -> {"convert", "segment", "embed", "cluster", "confidence", "assemble"}
      [] stage = "convert"  -> {"segment", "embed", "cluster", "confidence", "assemble"}
      [] stage = "segment"  -> {"embed", "cluster", "confidence", "assemble"}
      [] stage = "embed"    -> {"cluster", "confidence", "assemble"}
      [] stage = "cluster"  -> {"confidence", "assemble"}

----------------------------------------------------------------------------
(* The claims *)

\* C1: when the invocation has ended, with a response (the full one or the
\* empty one) or with a failure of any stage, no temporary file (downloaded
\* audio, converted wav) is left.
C1_TempFilesReleased == Ended => files = {}

\* C2, as stated: one non-speech frame between two speech frames does not
\* end a segment, and speech at [0..10] and [12..20] with frame 11 silent
\* gives exactly one segment.
C2_OneFrameGapTolerated ==
    SegReturned =>
        /\ \A k \in 0..(Len(is_speech) - 1) :
               (Speech(k) /\ ~Speech(k + 1) /\ Speech(k + 2))
                   => \A i \in 1..Len(speech_segments) :
                          speech_segments[i].end # EndTime(k)
        /\ is_speech = ScenarioOneFrameGap => Len(speech_segments) = 1

\* C2, amended: any non-speech frame between two speech frames ends the
\* segment, so that a returned segment covers speech frames only, and
\* speech at [0..10] and [12..20] with frame 11 silent gives the two
\* segments [0.000, 0.330] and [0.360, 0.630].
C2_AnyGapBreaks ==
    SegReturned =>
        /\ \A i \in 1..Len(speech_segments) :
               \A k \in 0..(Len(is_speech) - 1) :
                   (speech_segments[i].start <= StartTime(k)
                        /\ EndTime(k) <= speech_segments[i].end) => Speech(k)
        /\ is_speech = ScenarioOneFrameGap =>
               speech_segments = <<[start |-> 0, end |-> 330],
                                   [start |-> 360, end |-> 630]>>

C2_Witness ==
    /\ SegReturned
    /\ is_speech = ScenarioOneFrameGap
    /\ Len(speech_segments) = 2

\* C3: every returned segment has start < end and lasts 0.25 s at least
\* (9 frames of 30 ms); the runs shorter than that, inner or final, are
\* dropped and every run of 9 frames or more still has its segment.
C3_MinDuration ==
    SegReturned =>
      LET runs == Runs
          long == LongOf(runs)
      IN
        /\ \A i \in 1..Len(speech_segments) :
               /\ speech_segments[i].start < speech_segments[i].end
               /\ speech_segments[i].end - speech_segments[i].start >= 250
               /\ speech_segments[i].end - speech_segments[i].start >= 9 * 30
        /\ Len(speech_segments) = Cardinality(long)
        /\ {speech_segments[i].start : i \in 1..Len(speech_segments)}
               = {30 * r[1] : r \in long}
        /\ \A r \in ShortOf(runs) :
               \A i \in 1..Len(speech_segments) : speech_segments[i].start # 30 * r[1]

C3_Witness ==
    /\ SegReturned
    /\ speech_segments # <<>>
    /\ LET runs == Runs
       IN  /\ \E r \in ShortOf(runs) : ~LastOf(runs, r)
           /\ \E r \in ShortOf(runs) : LastOf(runs, r)

\* C4: the list returned by detect_speech_segments, and the diarizedSegments
\* of a response, are sorted by start and each segment ends no later than
\* the next one starts.
C4_SortedNonOverlapping ==
    /\ SegReturned => SortedDisjoint(speech_segments)
    /\ pc = "returned" => SortedDisjoint(response.diarizedSegments)

C4_Witness ==
    /\ pc = "returned"
    /\ Len(response.diarizedSegments) >= 3

\* C5: when no frame is classified as speech, the embedding, clustering and
\* confidence stages are never entered, nothing fails once the frames are
\* classified, and the response is the empty one: no segment, speakerCount 0,
\* confidence 0.0.
C5_NoSpeechShortCircuit ==
    ZeroSpeech =>
        /\ executed \cap {"embed", "cluster", "confidence", "assemble"} = {}
        /\ pc \notin {"segmented", "embedded", "clustered", "scored"}
        /\ pc = "failed" => error.stage \in {"download", "convert", "segment"}
        /\ pc = "merging" => (speech_frames = <<>> /\ ENABLED DetectReturn)
        /\ pc = "returned" => (EmptyResult /\ error = NoError)

C5_Witness ==
    /\ ZeroSpeech
    /\ Len(is_speech) > 0
    /\ pc = "returned"
    /\ response.diarizedSegments = <<>>

\* C6: after a failure of a stage no later stage has been entered, the
\* failure is raised to the caller and there is no response; a response
\* comes with no failure and gives every segment the label the clusterer
\* gave to the segment of the same index.
C6_FailFastAllOrNothing ==
    /\ pc = "failed" =>
           /\ response = NoResponse
           /\ error.kind = "HTTPException"
           /\ executed \cap LaterStages(error.stage) = {}
    /\ error # NoError => pc = "failed"
    /\ response # NoResponse => (pc = "returned" /\ error = NoError)
    /\ (pc = "returned" /\ response.diarizedSegments # <<>>) =>
           /\ Len(response.diarizedSegments) = Len(speech_segments)
           /\ Len(speaker_labels) = Len(speech_segments)
           /\ \A i \in 1..Len(speech_segments) :
                  /\ response.diarizedSegments[i].speaker = SpeakerName(speaker_labels[i])
                  /\ response.diarizedSegments[i].start = speech_segments[i].start
                  /\ response.diarizedSegments[i].end = speech_segments[i].end

C6_Witness ==
    /\ pc = "returned"
    /\ Len(speech_segments) >= 2
    /\ \E i \in 1..Len(speaker_labels) : speaker_labels[i] = 1

\* C7: when the confidence computation raises, calculate_confidence gives
\* 0.0, the invocation does not fail, and the response has every segment,
\* the speakerCount and confidence 0.0.
C7_ConfidenceFailureRecovered ==
    (silhouette.called /\ silhouette.raised) =>
        /\ confidence = 0
        /\ pc \in {"scored", "returned"}
        /\ error = NoError
        /\ pc = "returned" =>
               /\ response.confidence = 0
               /\ Len(response.diarizedSegments) = Len(speech_segments)
               /\ response.speakerCount = Cardinality(LabelSet(speaker_labels))

C7_Witness ==
    /\ silhouette.called
    /\ silhouette.raised
    /\ pc = "returned"
    /\ Len(response.diarizedSegments) >= 3

\* C8: the confidence is within [0.0, 1.0]: 0.0 with fewer than 2 vectors,
\* 0.0 when all labels are the same, else the silhouette score with a
\* negative value replaced by 0.0; a response carries that value.
C8_ConfidenceRange ==
    /\ confidence \in 0..100
    /\ pc \in {"scored", "returned"} /\ "confidence" \in executed =>
           /\ Len(embeddings) < 2 => confidence = 0
           /\ Cardinality(LabelSet(speaker_labels)) <= 1 => confidence = 0
           /\ silhouette.called /\ ~silhouette.raised /\ silhouette.score < 0
                  => confidence = 0
           /\ silhouette.called /\ ~silhouette.raised /\ silhouette.score >= 0
                  => confidence = silhouette.score
    /\ pc = "returned" =>
           /\ response.confidence \in 0..100
           /\ response.confidence = confidence

C8_Witness ==
    /\ pc = "returned"
    /\ silhouette.called
    /\ ~silhouette.raised
    /\ silhouette.score < 0
    /\ response.confidence = 0

\* C9: every returned segment starts at firstFrame x 0.030 s and ends at
\* (lastFrame + 1) x 0.030 s of a run of speech frames; speech at [0..66]
\* and [100..166] with [67..99] silent gives [0.000, 2.010], [3.000, 5.010].
C9_FrameBoundaries ==
    SegReturned =>
      LET runs == Runs
      IN
        /\ \A i \in 1..Len(speech_segments) :
               \E r \in runs :
                   /\ speech_segments[i].start = 30 * r[1]
                   /\ speech_segments[i].end = 30 * (r[2] + 1)
        /\ is_speech = ScenarioTwoRuns =>
               speech_segments = <<[start |-> 0, end |-> 2010],
                                   [start |-> 3000, end |-> 5010]>>

C9_Witness ==
    /\ SegReturned
    /\ is_speech = ScenarioTwoRuns
    /\ Len(speech_segments) = 2

\* C10: in a response, speakerCount is the number of distinct speakers of
\* the diarized segments (0, 1 or 2) and the labels used are 0 up to
\* speakerCount - 1, shown as "Speaker 1", "Speaker 2".
C10_SpeakerCount ==
    pc = "returned" =>
        LET speakers == {response.diarizedSegments[i].speaker :
                            i \in 1..Len(response.diarizedSegments)}
        IN  /\ response.speakerCount = Cardinality(speakers)
            /\ response.speakerCount \in 0..2
            /\ speakers = {SpeakerName(l) : l \in 0..(response.speakerCount - 1)}
            /\ speakers \subseteq {"Speaker 1", "Speaker 2"}
            /\ LabelSet(speaker_labels) = 0..(response.speakerCount - 1)
            /\ response.speakerCount = 2 =>
                   \A l \in {0, 1} : \E i \in 1..Len(speaker_labels) : speaker_labels[i] = l

C10_Witness ==
    /\ pc = "returned"
    /\ response.speakerCount = 1
    /\ Len(response.diarizedSegments) = 1

====
